---------------------------- MODULE Spec2Model ----------------------------
(***************************************************************************)
(* Tile-region extraction (floodfill_all / fill / neighbors) and boundary  *)
(* contour tracing (get_verts) of src/src/game/floodfill.rs, together with *)
(* the caller loop of spawn_player in src/src/game.rs that runs get_verts  *)
(* on every region floodfill_all returned.                                 *)
(*                                                                         *)
(* The source works on a 1000 x 1000 grid of tiles with usize coordinates. *)
(* The model keeps the code's structure and scales the grid to             *)
(* GridW x GridH cells and the machine word to UsizeBits bits.             *)
(***************************************************************************)
EXTENDS Integers, Sequences, FiniteSets, TLC

\* ------------------------------------------------------------------ bounds

\* Grid dimensions (the source's 1000 columns and 1000 rows).
GridW == 3
GridH == 3
\* Width of usize (and of the i32 the walk casts through) in bits.
UsizeBits == 8
\* Length at which the model stops growing the vertex list of a walk that
\* never comes back (the code's Vec grows until memory runs out).
MaxVerts == 40
\* Count at which the model stops counting the iterations of such a walk.
MaxSteps == 48
\* Largest shift, in x and in y, applied to the regions of the unit tests.
MaxShift == 1

\* --------------------------------------------------------------- the grid

Cells == (0 .. GridW - 1) \X (0 .. GridH - 1)

\* enum Tile; the grids explored hold one solid and one non-solid kind.
TileKinds == {"Error", "Sulfur", "Coal", "Rock", "Ice", "Oil", "Iron", "Air", "Wall"}
GridTiles == {"Rock", "Air"}

\* a solidity test that also takes Air for solid
Tile_is_solid_or_air(t) == t \notin {"Wall"}

\* Tile::is_solid
Tile_is_solid(t) == t \in {"Error", "Sulfur", "Coal", "Rock", "Ice", "Oil", "Iron"}

\* ------------------------------------------------------- machine integers

UsizeMod == 2 ^ UsizeBits

\* usize::wrapping_sub(1)
wrapping_sub1(x) == (x + UsizeMod - 1) % UsizeMod

\* `x as i32`: the two's complement reading of the word
as_i32(x) == IF x >= UsizeMod \div 2 THEN x - UsizeMod ELSE x

\* `i as usize`
as_usize(i) == i % UsizeMod

\* ------------------------------------------------------------- directions

East  == <<1, 0>>
South == <<0, 1>>
West  == <<-1, 0>>
North == <<0, -1>>
Dirs  == {East, South, West, North}

\* right holding the table of left
right_as_left(d) ==
    CASE d = East  -> North
      [] d = North -> West
      [] d = West  -> South
      [] d = South -> East

\* get_verts::right, the clockwise turn table
right(d) ==
    CASE d = East  -> South
      [] d = South -> West
      [] d = West  -> North
      [] d = North -> East

\* left holding the table of right
left_as_right(d) ==
    CASE d = East  -> South
      [] d = South -> West
      [] d = West  -> North
      [] d = North -> East

\* get_verts::left, the counter-clockwise turn table
left(d) ==
    CASE d = East  -> North
      [] d = North -> West
      [] d = West  -> South
      [] d = South -> East

\* modify with the arms of South and North exchanged
modify_swapped(p, d) ==
    CASE d = East  -> <<p[1], p[2]>>
      [] d = North -> <<wrapping_sub1(p[1]), p[2]>>
      [] d = West  -> <<wrapping_sub1(p[1]), wrapping_sub1(p[2])>>
      [] d = South -> <<p[1], wrapping_sub1(p[2])>>

\* modify whose West arm forgets to step back in y
modify_west_flat(p, d) ==
    CASE d = East  -> <<p[1], p[2]>>
      [] d = South -> <<wrapping_sub1(p[1]), p[2]>>
      [] d = West  -> <<wrapping_sub1(p[1]), p[2]>>
      [] d = North -> <<p[1], wrapping_sub1(p[2])>>

\* get_verts::modify: the cell looked up for corner p and direction d
modify(p, d) ==
    CASE d = East  -> <<p[1], p[2]>>
      [] d = South -> <<wrapping_sub1(p[1]), p[2]>>
      [] d = West  -> <<wrapping_sub1(p[1]), wrapping_sub1(p[2])>>
      [] d = North -> <<p[1], wrapping_sub1(p[2])>>

\* get_verts::is_solid: membership of the looked-up cell
is_solid(region, p, d) == modify(p, d) \in region.members

\* get_verts::add_dir
add_dir(a, b) == <<as_usize(as_i32(a[1]) + b[1]), as_usize(as_i32(a[2]) + b[2])>>

\* ---------------------------------------------------------------- flood fill

\* neighbors that also offers the upper-left diagonal cell
neighbors_diagonal(p) ==
    LET x == p[1]
        y == p[2]
    IN  (IF x # 0 THEN << <<x - 1, y>> >> ELSE << >>)
        \o (IF x # GridW - 1 THEN << <<x + 1, y>> >> ELSE << >>)
        \o (IF y # 0 THEN << <<x, y - 1>> >> ELSE << >>)
        \o (IF y # GridH - 1 THEN << <<x, y + 1>> >> ELSE << >>)
        \o (IF x # 0 /\ y # 0 THEN << <<x - 1, y - 1>> >> ELSE << >>)

\* neighbors whose test for the last column is off by one
neighbors_short(p) ==
    LET x == p[1]
        y == p[2]
    IN  (IF x # 0 THEN << <<x - 1, y>> >> ELSE << >>)
        \o (IF x + 1 < GridW - 1 THEN << <<x + 1, y>> >> ELSE << >>)
        \o (IF y # 0 THEN << <<x, y - 1>> >> ELSE << >>)
        \o (IF y # GridH - 1 THEN << <<x, y + 1>> >> ELSE << >>)

\* neighbors that goes around the border to the opposite column or row
neighbors_wrap(p) ==
    LET x == p[1]
        y == p[2]
    IN  << <<(x + GridW - 1) % GridW, y>>, <<(x + 1) % GridW, y>>,
           <<x, (y + GridH - 1) % GridH>>, <<x, (y + 1) % GridH>> >>

\* neighbors: the in-grid edge neighbours of (x, y), in the order pushed
neighbors(p) ==
    LET x == p[1]
        y == p[2]
    IN  (IF x # 0 THEN << <<x - 1, y>> >> ELSE << >>)
        \o (IF x # GridW - 1 THEN << <<x + 1, y>> >> ELSE << >>)
        \o (IF y # 0 THEN << <<x, y - 1>> >> ELSE << >>)
        \o (IF y # GridH - 1 THEN << <<x, y + 1>> >> ELSE << >>)

\* unclaimed that looks at the last region only
unclaimed_last(rs, p) == rs = << >> \/ p \notin rs[Len(rs)].members

\* floodfill_all's test that no earlier region holds p
unclaimed(rs, p) == \A i \in 1 .. Len(rs) : p \notin rs[i].members

\* the inner loop without the test of visited
RECURSIVE to_push_visited(_, _, _)
to_push_visited(v, vis, t) ==
    IF v = << >> THEN << >>
    ELSE (IF Tile_is_solid(t[Head(v)])
            THEN << Head(v) >> ELSE << >>) \o to_push_visited(Tail(v), vis, t)

\* SelectSeq with a predicate over the elements (the inner for loop of fill)
RECURSIVE to_push(_, _, _)
to_push(v, vis, t) ==
    IF v = << >> THEN << >>
    ELSE (IF Head(v) \notin vis /\ Tile_is_solid(t[Head(v)])
            THEN << Head(v) >> ELSE << >>) \o to_push(Tail(v), vis, t)

VARIABLES
    tiles,      \* the grid: cell -> tile kind
    pc,         \* where the program is: scan, fill, spawn, walk, returned, done
    sx, sy,     \* floodfill_all's loop counters
    regions,    \* floodfill_all's regions: sequence of [start, members]
    fstart,     \* fill's start
    to_check,   \* fill's work stack
    visited,    \* fill's visited set
    pops,       \* the cells the running fill has popped -> how often (not in the code)
    ri,         \* spawn_player's position in flood.regions
    cur,        \* get_verts' current corner
    dir,        \* get_verts' direction of travel
    verts,      \* get_verts' vertex list
    steps,      \* iterations the loop of get_verts has run (not in the code)
    caller,     \* who called floodfill_all: from_image or spawn_player
    asset       \* MapAsset.floodfill: the regions from_image stored

vars == <<tiles, pc, sx, sy, regions, fstart, to_check, visited, pops, ri, cur, dir, verts,
          steps, caller, asset>>

fillVars == <<fstart, to_check, visited, pops>>
walkVars == <<ri, cur, dir, verts, steps>>
loadVars == <<caller, asset>>

\* no cell popped yet
no_pops == [c \in {} |-> 0]

\* how often cell c was popped according to f
pop_count(f, c) == IF c \in DOMAIN f THEN f[c] ELSE 0

\* f after one more pop of cell c
popped(f, c) == [d \in DOMAIN f \cup {c} |-> pop_count(f, d) + (IF d = c THEN 1 ELSE 0)]

Init ==
    /\ tiles \in [Cells -> GridTiles]
    /\ pc = "scan"
    /\ sx = 0
    /\ sy = 0
    /\ regions = << >>
    /\ fstart = <<0, 0>>
    /\ to_check = << >>
    /\ visited = {}
    /\ pops = no_pops
    /\ ri = 0
    /\ cur = <<0, 0>>
    /\ dir = East
    /\ verts = << >>
    /\ steps = 0
    /\ caller = "spawn_player"
    /\ asset = << >>

\* the loop counters after the body for (sx, sy) has run
ScanAdvance ==
    IF sy + 1 < GridH
        THEN sx' = sx /\ sy' = sy + 1
        ELSE sx' = sx + 1 /\ sy' = 0

\* the point with its coordinates exchanged
scan_point_swapped(x, y) == <<y, x>>

\* floodfill_all: `let p = (x, y)`
scan_point(x, y) == <<x, y>>

\* fill starting from the visited set of the fill before it
new_visited_kept == visited

\* fill: `let mut visited = HashSet::new()`
new_visited == {}

\* floodfill_all: one iteration of the double loop over (x, y); a solid cell
\* that no region holds enters fill
ScanCell ==
    /\ pc = "scan"
    /\ sx < GridW
    /\ LET p == scan_point(sx, sy)
       IN  IF Tile_is_solid(tiles[p]) /\ unclaimed(regions, p)
             THEN /\ pc' = "fill"
                  /\ fstart' = p
                  /\ to_check' = << p >>
                  /\ visited' = new_visited
                  /\ pops' = no_pops
                  /\ UNCHANGED <<sx, sy>>
             ELSE /\ ScanAdvance
                  /\ UNCHANGED <<pc, fstart, to_check, visited, pops>>
    /\ UNCHANGED <<tiles, regions, walkVars, loadVars>>

\* fill: one iteration of `while let Some(p) = to_check.pop()`
FillPop ==
    /\ pc = "fill"
    /\ to_check # << >>
    /\ LET n    == Len(to_check)
           p    == to_check[n]
           rest == SubSeq(to_check, 1, n - 1)
           vis  == visited \cup {p}
       IN  /\ visited' = vis
           /\ pops' = popped(pops, p)
           /\ to_check' = rest \o to_push(neighbors(p), vis, tiles)
    /\ UNCHANGED <<tiles, pc, sx, sy, regions, fstart, walkVars, loadVars>>

\* fill returns Region { start, members: visited }; floodfill_all pushes it
FillReturn ==
    /\ pc = "fill"
    /\ to_check = << >>
    /\ regions' = Append(regions, [start |-> fstart, members |-> visited])
    /\ pc' = "scan"
    /\ ScanAdvance
    /\ pops' = no_pops
    /\ UNCHANGED <<tiles, fstart, to_check, visited, walkVars, loadVars>>

\* floodfill_all returns Floodfill { regions }; spawn_player starts its loop
FloodfillReturn ==
    /\ pc = "scan"
    /\ sx = GridW
    /\ caller = "spawn_player"
    /\ pc' = "spawn"
    /\ ri' = 0
    /\ UNCHANGED <<tiles, sx, sy, regions, fillVars, cur, dir, verts, steps, loadVars>>

\* floodfill_all returns to MapAsset::from_image, which stores the regions
\* in the asset; later spawn_player calls floodfill_all on the same tiles
LoadReturn ==
    /\ pc = "scan"
    /\ sx = GridW
    /\ caller = "from_image"
    /\ asset' = regions
    /\ caller' = "spawn_player"
    /\ regions' = << >>
    /\ sx' = 0
    /\ sy' = 0
    /\ UNCHANGED <<tiles, pc, fillVars, walkVars>>

\* -------------------------------------------------------------- get_verts

\* verts.push(c); the model stops growing the list at MaxVerts
push(vs, c) == IF Len(vs) < MaxVerts THEN Append(vs, c) ELSE vs

\* the branch with the straight test made before the left test
turn_straight_first(region, c, d) ==
    IF is_solid(region, c, d) THEN "straight"
    ELSE IF is_solid(region, c, left(d)) THEN "left"
    ELSE "right"

\* the branch the loop body takes at corner c reached in direction d
turn(region, c, d) ==
    IF is_solid(region, c, left(d)) THEN "left"
    ELSE IF is_solid(region, c, d) THEN "straight"
    ELSE "right"

\* every branch records the corner
pushes_always(t) == TRUE

\* whether the branch records the corner (verts.push(cur))
pushes(t) == t # "straight"

\* the direction the branch leaves the corner in
turned(t, d) ==
    CASE t = "left"     -> left(d)
      [] t = "straight" -> d
      [] t = "right"    -> right(d)

\* the exit test without the length condition
at_first_nolen(c, vs) == c = vs[1]

\* the exit test with a wrong length
at_first_late(c, vs) == c = vs[1] /\ Len(vs) > 5

\* the loop's exit test
at_first(c, vs) == c = vs[1] /\ Len(vs) > 1

\* spawn_player: the next region of flood.regions is handed to get_verts,
\* which sets up verts, cur and dir
SpawnNext ==
    /\ pc \in {"spawn", "returned"}
    /\ ri < Len(regions)
    /\ ri' = ri + 1
    /\ verts' = << regions[ri + 1].start >>
    /\ cur' = regions[ri + 1].start
    /\ dir' = East
    /\ steps' = 0
    /\ pc' = "walk"
    /\ UNCHANGED <<tiles, sx, sy, regions, fillVars, loadVars>>

\* spawn_player: the loop over flood.regions ends
SpawnDone ==
    /\ pc \in {"spawn", "returned"}
    /\ ri = Len(regions)
    /\ pc' = "done"
    /\ UNCHANGED <<tiles, sx, sy, regions, fillVars, walkVars, loadVars>>

\* get_verts: one iteration of the loop that does not break
WalkStep ==
    /\ pc = "walk"
    /\ ~ at_first(cur, verts)
    /\ LET c == add_dir(cur, dir)
           t == turn(regions[ri], c, dir)
       IN  /\ cur' = c
           /\ verts' = IF pushes(t) THEN push(verts, c) ELSE verts
           /\ dir' = turned(t, dir)
    /\ steps' = IF steps < MaxSteps THEN steps + 1 ELSE steps
    /\ UNCHANGED <<tiles, pc, sx, sy, regions, fillVars, ri, loadVars>>

\* get_verts: the loop breaks and verts is returned
WalkReturn ==
    /\ pc = "walk"
    /\ at_first(cur, verts)
    /\ pc' = "returned"
    /\ UNCHANGED <<tiles, sx, sy, regions, fillVars, walkVars, loadVars>>

Next ==
    \/ ScanCell
    \/ FillPop
    \/ FillReturn
    \/ FloodfillReturn
    \/ SpawnNext
    \/ SpawnDone
    \/ WalkStep
    \/ WalkReturn

\* floodfill_all on every grid, then get_verts on every region it returned
Spec == Init /\ [][Next]_vars

\* the same program; every loop iteration that can run does run
FairSpec == Spec /\ WF_vars(Next)

\* ------------------------------------- floodfill_all called a second time

\* MapAsset::from_image calls floodfill_all when the map is loaded
InitLoad ==
    /\ tiles \in [Cells -> GridTiles]
    /\ pc = "scan"
    /\ sx = 0
    /\ sy = 0
    /\ regions = << >>
    /\ fstart = <<0, 0>>
    /\ to_check = << >>
    /\ visited = {}
    /\ pops = no_pops
    /\ ri = 0
    /\ cur = <<0, 0>>
    /\ dir = East
    /\ verts = << >>
    /\ steps = 0
    /\ caller = "from_image"
    /\ asset = << >>

NextLoad ==
    \/ ScanCell
    \/ FillPop
    \/ FillReturn
    \/ LoadReturn
    \/ FloodfillReturn

\* from_image's call of floodfill_all, then spawn_player's call of it on the
\* tiles of the same asset
SpecLoad == InitLoad /\ [][NextLoad]_vars

\* ----------------------------------------------------- reference notions

\* the edge neighbours of p, in or out of the grid
Adjacent(p) == { <<p[1] + 1, p[2]>>, <<p[1] - 1, p[2]>>,
                 <<p[1], p[2] + 1>>, <<p[1], p[2] - 1>> }

\* the cells of S reachable from the cells of F by edge-adjacent cells of S
RECURSIVE Grow(_, _, _)
Grow(seen, frontier, S) ==
    IF frontier = {} THEN seen
    ELSE LET nxt == ((UNION { Adjacent(p) : p \in frontier }) \cap S) \ seen
         IN  Grow(seen \cup nxt, nxt, S)

Closure(F, S) == Grow(F, F, S)

Reach(p, S) == IF p \in S THEN Closure({p}, S) ELSE {}

Connected(S) == S # {} /\ Reach(CHOOSE p \in S : TRUE, S) = S

SolidCells == { p \in Cells : Tile_is_solid(tiles[p]) }

\* the unit edges between a cell of S and a cell outside S
BoundaryEdges(S) == { e \in S \X Dirs : <<e[1][1] + e[2][1], e[1][2] + e[2][2]>> \notin S }

\* ------------------------------------------ get_verts on any region value

\* get_verts called on a Region value built by hand, as the tests of
\* floodfill.rs do: any non-empty 4-connected member set, any member as start
InitAny ==
    \E m \in SUBSET Cells :
        /\ Connected(m)
        /\ \E s \in m :
            /\ regions = << [start |-> s, members |-> m] >>
            /\ tiles = [p \in Cells |-> IF p \in m THEN "Rock" ELSE "Air"]
            /\ pc = "walk"
            /\ sx = GridW
            /\ sy = 0
            /\ fstart = s
            /\ to_check = << >>
            /\ visited = m
            /\ pops = no_pops
            /\ ri = 1
            /\ cur = s
            /\ dir = East
            /\ verts = << s >>
            /\ steps = 0
            /\ caller = "spawn_player"
            /\ asset = << >>

NextAny ==
    \/ WalkStep
    \/ WalkReturn

SpecAny == InitAny /\ [][NextAny]_vars

\* the loop of get_verts keeps iterating while its exit test is false
FairAny == SpecAny /\ WF_vars(NextAny)

\* --------------------------------- get_verts on a Region that breaks its
\* precondition

\* a Region value get_verts is not meant for: no member, members that are
\* not 4-connected, or a start that is not a member
Misuse(r) ==
    \/ r.members = {}
    \/ ~ Connected(r.members)
    \/ r.start \notin r.members

\* get_verts takes any Region value: the fields are public and nothing in
\* the function looks at the shape of the member set
InitMisuse ==
    \E m \in SUBSET Cells : \E s \in Cells :
        /\ Misuse([start |-> s, members |-> m])
        /\ regions = << [start |-> s, members |-> m] >>
        /\ tiles = [p \in Cells |-> IF p \in m THEN "Rock" ELSE "Air"]
        /\ pc = "walk"
        /\ sx = GridW
        /\ sy = 0
        /\ fstart = s
        /\ to_check = << >>
        /\ visited = m
        /\ pops = no_pops
        /\ ri = 1
        /\ cur = s
        /\ dir = East
        /\ verts = << s >>
        /\ steps = 0
        /\ caller = "spawn_player"
        /\ asset = << >>

NextMisuse ==
    \/ WalkStep
    \/ WalkReturn

SpecMisuse == InitMisuse /\ [][NextMisuse]_vars

\* --------------------------------------- get_verts on the tests' regions

\* the Region values of tests::square, tests::wide, tests::tall, tests::star
TestRegions ==
    { [start |-> <<0, 0>>, members |-> { <<0, 0>> }],
      [start |-> <<0, 0>>, members |-> { <<0, 0>>, <<1, 0>>, <<2, 0>> }],
      [start |-> <<0, 0>>, members |-> { <<0, 0>>, <<0, 1>>, <<0, 2>> }],
      [start |-> <<2, 0>>,
       members |-> {                     <<2, 0>>,
                               <<1, 1>>, <<2, 1>>, <<3, 1>>,
                     <<0, 2>>, <<1, 2>>, <<2, 2>>, <<3, 2>>, <<4, 2>>,
                               <<1, 3>>, <<2, 3>>, <<3, 3>>,
                                         <<2, 4>> }] }

\* the expected output of tests::star
StarOutput ==
    << <<2, 0>>, <<3, 0>>, <<3, 1>>, <<4, 1>>, <<4, 2>>, <<5, 2>>,
       <<5, 3>>, <<4, 3>>, <<4, 4>>, <<3, 4>>, <<3, 5>>, <<2, 5>>,
       <<2, 4>>, <<1, 4>>, <<1, 3>>, <<0, 3>>, <<0, 2>>, <<1, 2>>,
       <<1, 1>>, <<2, 1>>, <<2, 0>> >>

\* region r moved by o
Shifted(r, o) ==
    [start   |-> <<r.start[1] + o[1], r.start[2] + o[2]>>,
     members |-> { <<p[1] + o[1], p[2] + o[2]>> : p \in r.members }]

Shifts == (0 .. MaxShift) \X (0 .. MaxShift)

\* a test calls get_verts on its region, placed as in the test or shifted
InitTests ==
    \E t \in TestRegions, o \in Shifts :
        /\ regions = << Shifted(t, o) >>
        /\ tiles = [p \in Cells |-> IF p \in Shifted(t, o).members THEN "Rock" ELSE "Air"]
        /\ pc = "walk"
        /\ sx = GridW
        /\ sy = 0
        /\ fstart = Shifted(t, o).start
        /\ to_check = << >>
        /\ visited = Shifted(t, o).members
        /\ pops = no_pops
        /\ ri = 1
        /\ cur = Shifted(t, o).start
        /\ dir = East
        /\ verts = << Shifted(t, o).start >>
        /\ steps = 0
        /\ caller = "spawn_player"
        /\ asset = << >>

NextTests ==
    \/ WalkStep
    \/ WalkReturn

SpecTests == InitTests /\ [][NextTests]_vars

\* ------------------------------------------------------------------ claims

\* floodfill_all has just returned
FloodfillReturned == pc = "spawn"

RegionsHolding(p) == { i \in 1 .. Len(regions) : p \in regions[i].members }

\* C1: when floodfill_all has returned, every solid cell is a member of
\* exactly one region, no region holds a cell that is not solid, and no two
\* regions share a cell.
C1_Partition ==
    FloodfillReturned =>
        /\ \A p \in SolidCells : Cardinality(RegionsHolding(p)) = 1
        /\ \A i \in 1 .. Len(regions) : regions[i].members \subseteq SolidCells
        /\ \A i, j \in 1 .. Len(regions) :
              i # j => regions[i].members \cap regions[j].members = {}

\* floodfill_all returned at least two regions that the scan met interleaved,
\* on a grid that also has non-solid cells
C1_Witness ==
    /\ FloodfillReturned
    /\ Len(regions) >= 2
    /\ SolidCells # Cells
    /\ \E p \in regions[1].members :
          p[1] > regions[2].start[1]

\* C2: in every region floodfill_all returned, every member is reachable
\* from the region's start by edge-adjacent cells that are members of that
\* region.
C2_ConnectedToStart ==
    FloodfillReturned =>
        \A i \in 1 .. Len(regions) :
            /\ regions[i].start \in regions[i].members
            /\ Reach(regions[i].start, regions[i].members) = regions[i].members

\* a region with a bend, beside another region that touches it at a corner only
C2_Witness ==
    /\ FloodfillReturned
    /\ \E i, j \in 1 .. Len(regions) :
          /\ i # j
          /\ Cardinality(regions[i].members) >= 3
          /\ \E p \in regions[i].members :
                <<p[1] + 1, p[2] + 1>> \in regions[j].members

\* C3: every region floodfill_all returned is the whole 4-connected
\* component of solid cells that holds its start: no solid cell
\* edge-adjacent to a member is left out.
C3_Maximal ==
    FloodfillReturned =>
        \A i \in 1 .. Len(regions) :
            /\ regions[i].members = Reach(regions[i].start, SolidCells)
            /\ \A p \in regions[i].members :
                  (Adjacent(p) \cap SolidCells) \subseteq regions[i].members

\* a region that reaches the last column and the last row from its start
C3_Witness ==
    /\ FloodfillReturned
    /\ \E i \in 1 .. Len(regions) :
          /\ regions[i].start = <<0, 0>>
          /\ <<GridW - 1, GridH - 1>> \in regions[i].members
          /\ SolidCells # Cells

\* ---- the vertex list get_verts returned

\* the list is the code's list: the walk ended before the model's cap
Uncapped(vs) == Len(vs) < MaxVerts

\* first and last element equal, at least five elements
Closed(vs) == Len(vs) >= 5 /\ vs[Len(vs)] = vs[1]

\* get_verts has returned verts for region regions[ri]
Returned == pc = "returned"

C4_Closed ==
    Returned =>
        /\ Uncapped(verts)
        /\ verts[1] = regions[ri].start
        /\ Closed(verts)

\* the loop of get_verts has run at most once per boundary edge of the region
StepsBounded ==
    /\ steps < MaxSteps
    /\ steps <= Cardinality(BoundaryEdges(regions[ri].members))

\* C4: on every grid, for every region floodfill_all returned, get_verts
\* terminates (its loop runs at most once per unit edge between a member and
\* a non-member), and the list it returns starts with region.start, ends
\* with its first element and has at least five elements.
C4_PipelineClosure ==
    /\ C4_Closed
    /\ pc = "walk" => StepsBounded

\* get_verts returned for the second region of a grid, a region with a
\* concave corner
C4_Witness ==
    /\ Returned
    /\ ri = 2
    /\ Len(verts) >= 7

\* ---- get_verts on any connected member set and any member as start

\* the region value the walk runs on
TheRegion == regions[ri]

\* neither the cell above start nor the cell left of start is a member
StartExposed(r) ==
    /\ <<r.start[1], r.start[2] - 1>> \notin r.members
    /\ <<r.start[1] - 1, r.start[2]>> \notin r.members

\* start is the first member in floodfill_all's scan order
StartScanFirst(r) ==
    \A q \in r.members :
        \/ q[1] > r.start[1]
        \/ q[1] = r.start[1] /\ q[2] >= r.start[2]

Abs(n) == IF n < 0 THEN -n ELSE n
Min(S) == CHOOSE m \in S : \A n \in S : m <= n
Max(S) == CHOOSE m \in S : \A n \in S : m >= n

\* the sum of x_i * y_(i+1) - x_(i+1) * y_i over the edges i .. Len(vs) - 1
RECURSIVE ShoelaceFrom(_, _)
ShoelaceFrom(vs, i) ==
    IF i >= Len(vs) THEN 0
    ELSE vs[i][1] * vs[i + 1][2] - vs[i + 1][1] * vs[i][2] + ShoelaceFrom(vs, i + 1)

\* twice the signed area of the polygon
ShoelaceSum(vs) == ShoelaceFrom(vs, 1)

\* the non-members that cannot reach the outside of the bounding box of S
\* through edge-adjacent non-members: the bounding box is widened by one
\* cell on every side, and the search starts from that rim
Enclosed(S) ==
    LET xs    == { p[1] : p \in S }
        ys    == { p[2] : p \in S }
        x0    == Min(xs) - 1
        x1    == Max(xs) + 1
        y0    == Min(ys) - 1
        y1    == Max(ys) + 1
        free  == ((x0 .. x1) \X (y0 .. y1)) \ S
        rim   == { p \in free : p[1] \in {x0, x1} \/ p[2] \in {y0, y1} }
    IN  free \ Closure(rim, free)

NoHole(S) == Enclosed(S) = {}

\* the lattice points of the axis-parallel segment from a to b
SegPts(a, b) ==
    (Min({a[1], b[1]}) .. Max({a[1], b[1]})) \X (Min({a[2], b[2]}) .. Max({a[2], b[2]}))

\* edges i and j of a closed list of n vertices follow one another
ConsecutiveEdges(i, j, n) ==
    \/ j = i + 1
    \/ i = j + 1
    \/ {i, j} = {1, n - 1}

\* no vertex but the closing one occurs twice, no two non-consecutive edges
\* share a point
Simple(vs) ==
    LET n == Len(vs)
    IN  /\ \A i, j \in 1 .. n - 1 : i # j => vs[i] # vs[j]
        /\ \A i, j \in 1 .. n - 1 :
              (i < j /\ ~ ConsecutiveEdges(i, j, n)) =>
                  SegPts(vs[i], vs[i + 1]) \cap SegPts(vs[j], vs[j + 1]) = {}

Collinear(a, b, c) ==
    (b[1] - a[1]) * (c[2] - a[2]) = (b[2] - a[2]) * (c[1] - a[1])

\* no three consecutive vertices on one line, the closing point included
CornersOnly(vs) ==
    LET n == Len(vs)
    IN  /\ \A i \in 1 .. n - 2 : ~ Collinear(vs[i], vs[i + 1], vs[i + 2])
        /\ ~ Collinear(vs[n - 1], vs[1], vs[2])

\* some edge of the list is longer than one unit
HasLongEdge(vs) ==
    \E i \in 1 .. Len(vs) - 1 :
        Abs(vs[i + 1][1] - vs[i][1]) + Abs(vs[i + 1][2] - vs[i][2]) >= 2

\* C7: for every region floodfill_all returned that has no hole, the
\* absolute shoelace area of the polygon get_verts returns equals the number
\* of member cells.
C7_AreaIsCellCount ==
    (Returned /\ NoHole(TheRegion.members)) =>
        /\ Uncapped(verts)
        /\ Abs(ShoelaceSum(verts)) = 2 * Cardinality(TheRegion.members)

\* get_verts returned for a region without hole that is no rectangle
C7_Witness ==
    /\ Returned
    /\ NoHole(TheRegion.members)
    /\ Cardinality(TheRegion.members) >= 4
    /\ Len(verts) >= 9

\* C8: for every region floodfill_all returned that has no hole, the polygon
\* get_verts returns is simple: apart from the closing vertex no vertex
\* occurs twice, and no two non-consecutive edges share a point.
C8_SimplePolygon ==
    (Returned /\ NoHole(TheRegion.members)) =>
        /\ Uncapped(verts)
        /\ Simple(verts)

\* get_verts returned for a region without hole whose outline has concave
\* corners on two sides
C8_Witness ==
    /\ Returned
    /\ NoHole(TheRegion.members)
    /\ Len(verts) >= 13

\* C9: for every region floodfill_all returned, no three consecutive
\* vertices of the list get_verts returns are collinear, also across the
\* closing point; a straight boundary run contributes no vertex.
C9_VerticesOnlyAtCorners ==
    Returned => Uncapped(verts) /\ CornersOnly(verts)

\* get_verts returned after a straight run of two or more unit steps on a
\* region that is no rectangle
C9_Witness ==
    /\ Returned
    /\ HasLongEdge(verts)
    /\ Len(verts) >= 7
    /\ steps > Len(verts) - 1

\* C10: for every region floodfill_all returned, the vertices get_verts
\* returns run clockwise in grid coordinates (y growing downward): the
\* signed shoelace sum is strictly positive.
C10_Clockwise ==
    Returned => Uncapped(verts) /\ ShoelaceSum(verts) > 0

\* get_verts returned for a region with a hole, after left and right turns
C10_Witness ==
    /\ Returned
    /\ ~ NoHole(TheRegion.members)
    /\ Len(verts) >= 5

\* ---- fixed shapes

\* S is a full rectangle of cells
IsRectangle(S) ==
    LET xs == { p[1] : p \in S }
        ys == { p[2] : p \in S }
    IN  S = (Min(xs) .. Max(xs)) \X (Min(ys) .. Max(ys))

\* the outline of the w-by-h rectangle with top-left cell (x, y)
RectangleOutline(x, y, w, h) ==
    << <<x, y>>, <<x + w, y>>, <<x + w, y + h>>, <<x, y + h>>, <<x, y>> >>

\* C11: for every full w-by-h rectangle of member cells with top-left cell
\* (x, y) and start = (x, y), the single cell included, get_verts returns
\* exactly [(x,y), (x+w,y), (x+w,y+h), (x,y+h), (x,y)].
C11_RectangleOutline ==
    (Returned /\ IsRectangle(TheRegion.members)) =>
        LET S  == TheRegion.members
            xs == { p[1] : p \in S }
            ys == { p[2] : p \in S }
        IN  TheRegion.start = <<Min(xs), Min(ys)>> =>
                verts = RectangleOutline(Min(xs), Min(ys),
                                         Max(xs) - Min(xs) + 1, Max(ys) - Min(ys) + 1)

\* get_verts returned for a rectangle at least two cells wide and high that
\* does not lie at the origin, started at its top-left cell
C11_Witness ==
    /\ Returned
    /\ IsRectangle(TheRegion.members)
    /\ StartScanFirst(TheRegion)
    /\ TheRegion.start[1] > 0
    /\ TheRegion.start[2] > 0
    /\ Cardinality(TheRegion.members) >= 4
    /\ <<TheRegion.start[1] + 1, TheRegion.start[2] + 1>> \in TheRegion.members

\* the plus/star region of tests::star
StarRegion == CHOOSE t \in TestRegions : Cardinality(t.members) = 13

\* the turn at b on the way from a over b to c: 1 right, -1 left, 0 none
TurnAt(a, b, c) ==
    LET x == (b[1] - a[1]) * (c[2] - b[2]) - (b[2] - a[2]) * (c[1] - b[1])
    IN  IF x > 0 THEN 1 ELSE IF x < 0 THEN -1 ELSE 0

\* the turn at vertex i of a closed list (vertex 1 is also the closing one)
TurnOf(vs, i) ==
    LET n == Len(vs)
    IN  TurnAt(vs[IF i = 1 THEN n - 1 ELSE i - 1], vs[i], vs[i + 1])

\* the vertex after and the vertex before vertex i around the closed list
NextVertex(vs, i) == IF i = Len(vs) - 1 THEN 1 ELSE i + 1
PrevVertex(vs, i) == IF i = 1 THEN Len(vs) - 1 ELSE i - 1

\* right and left turns alternate all around the closed list
TurnsAlternate(vs) ==
    \A i \in 1 .. Len(vs) - 1 :
        /\ TurnOf(vs, i) # 0
        /\ TurnOf(vs, i) # TurnOf(vs, NextVertex(vs, i))

\* the vertices of the closed list where the walk turned by t
TurnsBy(vs, t) == { i \in 1 .. Len(vs) - 1 : TurnOf(vs, i) = t }

\* the list vs moved by o
ShiftedList(vs, o) == [i \in 1 .. Len(vs) |-> <<vs[i][1] + o[1], vs[i][2] + o[2]>>]

\* C12 as stated: for the 13-cell star region centred at (2,2) with start
\* (2,0), get_verts returns exactly the 21-vertex list of tests::star, one
\* vertex per outline corner, right and left turns alternating.
C12_StarAlternating ==
    (Returned /\ TheRegion = StarRegion) =>
        /\ verts = StarOutput
        /\ TurnsAlternate(verts)

\* C12 amended: for the 13-cell star region centred at (2,2) with start
\* (2,0), get_verts returns exactly the 21-vertex list of tests::star, one
\* vertex per outline corner: 12 right turns and 8 left turns, every left
\* turn between two right turns (the two corners of each arm tip are both
\* right turns); the same holds, moved along, for the region shifted by o.
C12_StarOutline ==
    \A o \in Shifts :
        (Returned /\ TheRegion = Shifted(StarRegion, o)) =>
            /\ verts = ShiftedList(StarOutput, o)
            /\ Cardinality(TurnsBy(verts, 1)) = 12
            /\ Cardinality(TurnsBy(verts, -1)) = 8
            /\ \A i \in TurnsBy(verts, -1) :
                  /\ TurnOf(verts, PrevVertex(verts, i)) = 1
                  /\ TurnOf(verts, NextVertex(verts, i)) = 1

\* get_verts returned for the star region placed as in tests::star
C12_Witness ==
    /\ Returned
    /\ TheRegion = StarRegion
    /\ TheRegion.start = <<2, 0>>
    /\ steps = 20

\* ---- the regions of a grid

\* the maximal 4-connected sets of solid cells
Components == { Reach(p, SolidCells) : p \in SolidCells }

\* the cells that touch p at a corner only
Diagonal(p) == { <<p[1] + 1, p[2] + 1>>, <<p[1] + 1, p[2] - 1>>,
                 <<p[1] - 1, p[2] + 1>>, <<p[1] - 1, p[2] - 1>> }

\* C13: floodfill_all returns as many regions as the solid cells have
\* maximal 4-connected components; two solid cells that touch only at a
\* corner and are not connected otherwise are in different regions.
C13_RegionCount ==
    FloodfillReturned =>
        /\ Len(regions) = Cardinality(Components)
        /\ \A p \in SolidCells : \A q \in Diagonal(p) \cap SolidCells :
              q \notin Reach(p, SolidCells) =>
                  RegionsHolding(p) \cap RegionsHolding(q) = {}

\* floodfill_all returned for a grid with two blobs kept apart by non-solid
\* cells and a third that touches one of them at a corner only
C13_Witness ==
    /\ FloodfillReturned
    /\ Len(regions) >= 3
    /\ \E p \in SolidCells : \E q \in Diagonal(p) \cap SolidCells :
          q \notin Reach(p, SolidCells)
    /\ \E i, j \in 1 .. Len(regions) :
          \A p \in regions[i].members : \A q \in regions[j].members :
              Abs(p[1] - q[1]) + Abs(p[2] - q[2]) >= 3

\* ---- two calls on one grid

\* the member sets of a region list
MemberSets(rs) == { rs[i].members : i \in 1 .. Len(rs) }

\* the second call of floodfill_all has returned; asset holds what the first
\* call returned
SecondReturned == pc = "spawn" /\ asset # << >>

\* C14: floodfill_all run twice on the same unchanged grid returns the same
\* collection of member sets both times; nothing of the first call is left
\* in the second.
C14_Deterministic ==
    pc = "spawn" =>
        /\ Len(regions) = Len(asset)
        /\ MemberSets(regions) = MemberSets(asset)

\* both calls returned, each with at least two regions
C14_Witness ==
    /\ SecondReturned
    /\ Len(asset) >= 2
    /\ Len(regions) >= 2

\* ---- a grid without solid cells

\* every tile of the grid is Air or Wall, the two kinds that are not solid
NoSolidTile == \A p \in Cells : tiles[p] \in {"Air", "Wall"}

\* C15: on a grid with no solid cell fill is never invoked and floodfill_all
\* returns an empty region list.
C15_EmptyGrid ==
    NoSolidTile =>
        /\ pc # "fill"
        /\ regions = << >>

\* floodfill_all scanned a grid without solid cells to its end and returned
C15_Witness ==
    /\ NoSolidTile
    /\ FloodfillReturned
    /\ sx = GridW

\* ---- get_verts on a Region that breaks its precondition

\* C16: get_verts called on a region with no member, with members that are
\* not 4-connected, or with a start that is not a member, never returns a
\* vertex list (it ends in an explicit failure instead).
C16_MisuseDetected ==
    Misuse(TheRegion) => pc # "returned"

\* ---- the start of a region floodfill_all returned

\* C17: for every region floodfill_all returned, start is a member and is the
\* first member in scan order (x ascending, then y ascending), so neither
\* the cell above start nor the cell left of start is a member.
C17_StartScanFirst ==
    FloodfillReturned =>
        \A i \in 1 .. Len(regions) :
            /\ regions[i].start \in regions[i].members
            /\ StartScanFirst(regions[i])
            /\ StartExposed(regions[i])

\* floodfill_all returned a region with a member higher up than its start
\* (in a later column) and a second region
C17_Witness ==
    /\ FloodfillReturned
    /\ Len(regions) >= 2
    /\ \E i \in 1 .. Len(regions) : \E q \in regions[i].members :
          /\ q[2] < regions[i].start[2]
          /\ q[1] > regions[i].start[1]

\* ---- the steps of the walk

\* a quarter turn to the left and to the right of a direction of travel
\* (y grows downwards)
RotLeft(d) == <<d[2], 0 - d[1]>>
RotRight(d) == <<0 - d[2], d[1]>>

\* the two cells in front of lattice corner c for a walker heading d: the
\* one on the left and the one on the right of the line of travel
AheadLeft(c, d) ==
    CASE d = <<1, 0>>  -> <<c[1], c[2] - 1>>
      [] d = <<0, 1>>  -> <<c[1], c[2]>>
      [] d = <<-1, 0>> -> <<c[1] - 1, c[2]>>
      [] d = <<0, -1>> -> <<c[1] - 1, c[2] - 1>>

AheadRight(c, d) ==
    CASE d = <<1, 0>>  -> <<c[1], c[2]>>
      [] d = <<0, 1>>  -> <<c[1] - 1, c[2]>>
      [] d = <<-1, 0>> -> <<c[1] - 1, c[2] - 1>>
      [] d = <<0, -1>> -> <<c[1], c[2] - 1>>

\* the loop of get_verts runs its body once
StepTaken == pc = "walk" /\ pc' = "walk" /\ <<cur, dir, verts>>' # <<cur, dir, verts>>

\* C18: every step of get_verts advances one lattice unit in the direction
\* of travel and then takes one of three cases in this priority: the cell
\* ahead-left is a member, turn left; else the cell ahead-right is a member,
\* keep the direction; else turn right. The new corner is appended to the
\* vertex list if and only if the direction changed in the step.
C18_TurningRule ==
    [][ StepTaken =>
          /\ cur' = <<cur[1] + dir[1], cur[2] + dir[2]>>
          /\ dir' = IF AheadLeft(cur', dir) \in TheRegion.members THEN RotLeft(dir)
                    ELSE IF AheadRight(cur', dir) \in TheRegion.members THEN dir
                    ELSE RotRight(dir)
          /\ verts' = IF dir' # dir THEN Append(verts, cur') ELSE verts
      ]_vars

\* get_verts returned from a walk that took all three cases: a left turn
\* (the cell ahead-left a member although the cell ahead-right is one too),
\* a straight step and a right turn
C18_Witness ==
    /\ Returned
    /\ \E i \in 2 .. Len(verts) - 1 : TurnOf(verts, i) = -1
    /\ \E i \in 2 .. Len(verts) - 1 : TurnOf(verts, i) = 1
    /\ HasLongEdge(verts)

\* ---- the edges the walk runs along

\* C19: for every region floodfill_all returned, every unit step of the walk
\* of get_verts runs along an edge with a member cell on its right-hand side
\* and a non-member cell, or the outside of the grid, on its left-hand side.
C19_BoundaryEdge ==
    [][ StepTaken =>
          /\ AheadRight(cur, dir) \in TheRegion.members
          /\ AheadLeft(cur, dir) \notin TheRegion.members
      ]_vars

\* get_verts returned from a walk of at least eight steps around a region
\* that lies against the top of the grid (the outside on the left of a step)
\* and has a non-member cell of the grid on the left of its first column
C19_Witness ==
    /\ Returned
    /\ steps >= 8
    /\ TheRegion.start[1] > 0
    /\ \E p \in TheRegion.members : p[2] = 0

\* ---- regions with holes

\* the four cells that meet at lattice corner v
CellsAt(v) == { <<v[1], v[2]>>, <<v[1] - 1, v[2]>>, <<v[1], v[2] - 1>>, <<v[1] - 1, v[2] - 1>> }

\* C20: for every region floodfill_all returned, with or without holes,
\* get_verts returns the outer outline only: every vertex touches a
\* non-member cell that reaches the outside of the bounding box, and the
\* absolute shoelace area of the polygon equals the number of member cells
\* plus the number of non-member cells that cannot reach the outside of the
\* bounding box through edge-adjacent non-member cells.
C20_OuterOutlineOnly ==
    Returned =>
        LET m    == TheRegion.members
            hole == Enclosed(m)
        IN  /\ Abs(ShoelaceSum(verts)) = 2 * (Cardinality(m) + Cardinality(hole))
            /\ \A i \in 1 .. Len(verts) :
                  \E c \in CellsAt(verts[i]) : c \notin m /\ c \notin hole

\* get_verts returned for a region with a pocket that touches the outside at
\* a corner only
C20_Witness ==
    /\ Returned
    /\ \E h \in Enclosed(TheRegion.members) : \E q \in Diagonal(h) :
          /\ q \notin TheRegion.members
          /\ q \notin Enclosed(TheRegion.members)
    /\ Len(verts) >= 7

\* ---- where the walk starts and where it stops

\* the exit test of the loop, spelled out
BackAtFirst == cur = verts[1] /\ Len(verts) > 1

\* C21: the walk of get_verts starts at corner region.start heading East
\* with the vertex list [start]; it stops at the first moment the current
\* corner equals the first vertex while the list holds more than one vertex,
\* whatever the direction of travel is then, and at no other corner.
C21_StartAndStop ==
    [][ /\ (pc = "walk" /\ steps = 0) =>
               /\ cur = TheRegion.start
               /\ dir = <<1, 0>>
               /\ verts = << TheRegion.start >>
        /\ (pc = "walk" /\ pc' = "returned") => (BackAtFirst /\ verts' = verts)
        /\ (pc = "walk" /\ BackAtFirst) => pc' = "returned"
      ]_vars

\* get_verts returned while the walk was not heading East
C21_Witness ==
    /\ Returned
    /\ BackAtFirst
    /\ dir # <<1, 0>>
    /\ steps >= 4

\* ---- the range of the corners

\* corner c lies in the bounding box of S widened by one to the right and to
\* the bottom
InCornerBox(c, S) ==
    /\ \E p \in S : p[1] <= c[1]
    /\ \E p \in S : c[1] <= p[1] + 1
    /\ \E p \in S : p[2] <= c[2]
    /\ \E p \in S : c[2] <= p[2] + 1

\* get_verts is at work on, or has returned for, a region
Walking == pc \in {"walk", "returned"}

\* C22: for every region floodfill_all returned, every corner the walk of
\* get_verts visits lies in the region's bounding box widened by one to the
\* right and bottom, hence in 0..W by 0..H; the signed addition of add_dir
\* never yields a negative coordinate, and a lookup whose cell was wrapped
\* by wrapping_sub(1) answers 'not a member'.
C22_CoordinatesInRange ==
    Walking =>
        LET m == TheRegion.members
        IN  /\ InCornerBox(cur, m)
            /\ cur \in (0 .. GridW) \X (0 .. GridH)
            /\ Returned =>
                  \A i \in 1 .. Len(verts) :
                      InCornerBox(verts[i], m) /\ verts[i] \in (0 .. GridW) \X (0 .. GridH)
            /\ (pc = "walk" /\ ~ BackAtFirst) =>
                  LET c == <<cur[1] + dir[1], cur[2] + dir[2]>>
                  IN  /\ c[1] >= 0 /\ c[2] >= 0
                      /\ add_dir(cur, dir) = c
                      /\ \A d \in {dir, left(dir)} :
                            modify(c, d) # AheadRight(c, d) => modify(c, d) \notin m

\* the walk has been to the bottom right corner of the grid and is coming up
\* the left border of the grid, where the lookups wrap
C22_Witness ==
    /\ pc = "walk"
    /\ cur[1] = 0
    /\ cur[2] >= 1
    /\ dir = <<0, -1>>
    /\ \E d \in {dir, left(dir)} :
          modify(<<cur[1], cur[2] - 1>>, d) # AheadRight(<<cur[1], cur[2] - 1>>, d)
    /\ \E i \in 1 .. Len(verts) : verts[i] = <<GridW, GridH>>

\* ---- the neighbours fill expands

\* the elements of a list
Range(v) == { v[i] : i \in 1 .. Len(v) }

\* the four cells that share an edge with p, on or off the grid
EdgeNeighbours(p) ==
    { <<p[1] - 1, p[2]>>, <<p[1] + 1, p[2]>>, <<p[1], p[2] - 1>>, <<p[1], p[2] + 1>> }

\* two cells at the two ends of one row or of one column of the grid
OppositeBorders(p, q) ==
    \/ p[2] = q[2] /\ p[1] = 0 /\ q[1] = GridW - 1
    \/ p[1] = q[1] /\ p[2] = 0 /\ q[2] = GridH - 1

\* C23: the neighbours fill expands for a cell are exactly its four edge
\* neighbours that lie inside the grid, and what it pushes are those of them
\* that are solid and not yet visited; nothing is reached across the border,
\* so two solid cells on opposite borders are in one region only if a path
\* of edge-adjacent members inside the grid joins them.
C23_NeighbourRule ==
    [][ /\ (pc = "fill" /\ to_check # << >>) =>
               LET n == Len(to_check)
                   p == to_check[n]
               IN  /\ Range(neighbors(p)) = EdgeNeighbours(p) \cap Cells
                   /\ Len(to_check') >= n - 1
                   /\ Range(SubSeq(to_check', n, Len(to_check'))) =
                         { q \in EdgeNeighbours(p) \cap Cells :
                               tiles[q] \notin {"Air", "Wall"} /\ q \notin visited' }
        /\ FloodfillReturned =>
               \A i \in 1 .. Len(regions) :
                   \A p, q \in regions[i].members :
                       OppositeBorders(p, q) => q \in Reach(p, regions[i].members)
      ]_vars

\* fill has popped a solid cell of the first column whose row ends in a
\* solid cell of the last column that is not connected to it
C23_Witness ==
    /\ pc = "fill"
    /\ \E p \in visited : \E q \in SolidCells :
          /\ OppositeBorders(p, q)
          /\ q \notin Reach(p, SolidCells)
    /\ to_check = << >>

\* ---- termination of floodfill_all and the calls of fill

\* floodfill_all is at work
Flooding == pc \in {"scan", "fill"}

\* a bound on what fill still has to do, times the cells of the grid
FillWeight == 8 * GridW * GridH + 2

\* a natural number that every step of floodfill_all makes smaller: the
\* scan positions still to come, and within one position the work left to
\* fill (four for every solid cell not yet visited, one for every entry of
\* the work stack)
FloodVariant ==
    (GridW * GridH - (sx * GridH + sy)) * FillWeight
        + (IF pc = "fill"
             THEN 4 * Cardinality(SolidCells \ visited) + Len(to_check)
             ELSE FillWeight - 1)

\* the members of the regions found so far
Claimed == UNION { regions[i].members : i \in 1 .. Len(regions) }

\* C24: floodfill_all terminates on every grid: as long as it is at work a
\* step can be taken, and every step lowers a natural number. fill is
\* invoked only on a solid cell that no earlier region holds; the region
\* list changes only when fill returns, by one region whose members no
\* earlier region holds, so each solid cell is collected by one call.
C24_FloodfillTerminates ==
    [][ /\ Flooding => /\ FloodVariant >= 0
                       /\ ENABLED (ScanCell \/ FillPop \/ FillReturn \/ FloodfillReturn)
        /\ (Flooding /\ Flooding') => FloodVariant' < FloodVariant
        /\ (pc = "scan" /\ pc' = "fill") =>
               /\ fstart' \in SolidCells \ Claimed
               /\ regions' = regions
        /\ (pc = "fill" /\ pc' = "fill") => regions' = regions
        /\ (pc = "fill" /\ pc' = "scan") =>
               /\ Len(regions') = Len(regions) + 1
               /\ SubSeq(regions', 1, Len(regions)) = regions
               /\ regions'[Len(regions')].members \cap Claimed = {}
               /\ fstart \in regions'[Len(regions')].members
        /\ (pc = "scan" /\ pc' = "spawn") =>
               /\ regions' = regions
               /\ \A p \in SolidCells : Cardinality(RegionsHolding(p)) = 1
      ]_vars

\* floodfill_all returned after three calls of fill, one of them for a region
\* of three cells or more, which the scan met again after the region was found
C24_Witness ==
    /\ FloodfillReturned
    /\ Len(regions) >= 3
    /\ \E i \in 1 .. Len(regions) : Cardinality(regions[i].members) >= 3

\* ---- the unit edges of the walk

Sign(n) == IF n > 0 THEN 1 ELSE IF n < 0 THEN -1 ELSE 0

\* the directed unit edges <<corner, direction>> of the straight run a -> b
RunEdges(a, b) ==
    LET d == <<Sign(b[1] - a[1]), Sign(b[2] - a[2])>>
        n == Abs(b[1] - a[1]) + Abs(b[2] - a[2])
    IN  { << <<a[1] + k * d[1], a[2] + k * d[2]>>, d >> : k \in 0 .. n - 1 }

\* the directed unit edges the walk has run along: it goes straight from
\* each vertex to the next
WalkEdges(vs) == UNION { RunEdges(vs[i], vs[i + 1]) : i \in 1 .. Len(vs) - 1 }

\* the member cell on the right of a directed unit edge, with the side of the
\* cell the edge lies on
SideOf(e) == << AheadRight(e[1], e[2]), RotLeft(e[2]) >>

\* C25: for every region floodfill_all returned, the walk of get_verts runs
\* along no directed unit edge twice, every edge it runs along separates a
\* member on its right from a non-member, and so the number of its steps is
\* at most the number of unit edges between a member and a non-member.
C25_NoEdgeTwice ==
    Returned =>
        LET es    == WalkEdges(verts)
            sides == { SideOf(e) : e \in es }
            m     == TheRegion.members
        IN  /\ steps < MaxSteps
            /\ Cardinality(es) = steps
            /\ \A sd \in sides :
                  sd[1] \in m /\ <<sd[1][1] + sd[2][1], sd[1][2] + sd[2][2]>> \notin m
            /\ Cardinality(sides) = steps
            /\ steps <= Cardinality(BoundaryEdges(m))

\* get_verts returned from a walk around a ring: fewer steps than the region
\* has edges to non-members, since the edges of the hole are not walked
C25_Witness ==
    /\ Returned
    /\ steps >= 12
    /\ steps < Cardinality(BoundaryEdges(TheRegion.members))

\* ---- horizontal and vertical edges

\* edge i of the list (from vertex i to vertex i + 1) is horizontal, vertical
Horizontal(vs, i) == vs[i][2] = vs[i + 1][2] /\ vs[i][1] # vs[i + 1][1]
Vertical(vs, i) == vs[i][1] = vs[i + 1][1] /\ vs[i][2] # vs[i + 1][2]

\* C26: for every region floodfill_all returned, any two consecutive
\* vertices get_verts returns differ in exactly one coordinate, consecutive
\* edges alternate between horizontal and vertical (the last and the first
\* edge too), and the length of the list, closing vertex included, is odd.
C26_RectilinearAlternation ==
    Returned =>
        LET n == Len(verts)
        IN  /\ \A i \in 1 .. n - 1 : Horizontal(verts, i) \/ Vertical(verts, i)
            /\ \A i \in 1 .. n - 2 : Horizontal(verts, i) # Horizontal(verts, i + 1)
            /\ Horizontal(verts, 1) # Horizontal(verts, n - 1)
            /\ n % 2 = 1

\* get_verts returned a list of thirteen vertices (twelve corners)
C26_Witness ==
    /\ Returned
    /\ Len(verts) = 13
    /\ Horizontal(verts, 1)
    /\ Vertical(verts, 12)

\* ---- the order of the regions

\* the place of cell p in the scan of floodfill_all: x outer, y inner
ScanIndex(p) == p[1] * GridH + p[2]

\* the cell of S the scan meets first
ScanFirst(S) == CHOOSE p \in S : \A q \in S : ScanIndex(p) <= ScanIndex(q)

\* C27: the regions in the list floodfill_all returns are in strictly
\* increasing scan order of their start cells (x ascending, then y
\* ascending); the starts are the first cells of the components of the grid,
\* so the order of the list and every start are determined by the grid.
C27_RegionOrder ==
    FloodfillReturned =>
        /\ \A i \in 1 .. Len(regions) - 1 :
              ScanIndex(regions[i].start) < ScanIndex(regions[i + 1].start)
        /\ { regions[i].start : i \in 1 .. Len(regions) } =
              { ScanFirst(c) : c \in Components }

\* floodfill_all returned three regions, the second of which starts higher
\* up than the first
C27_Witness ==
    /\ FloodfillReturned
    /\ Len(regions) = 3
    /\ regions[2].start[2] < regions[1].start[2]
    /\ regions[2].start[1] > regions[1].start[1]

\* ---- the cell modify looks up

\* cell p as the machine holds it: a coordinate of -1 is the largest word
AsWords(p) == <<p[1] % UsizeMod, p[2] % UsizeMod>>

\* C28: for a corner (x,y) modify returns (x,y) for East, (x-1,y) for South,
\* (x-1,y-1) for West and (x,y-1) for North, the subtraction being the
\* machine's; these are the four distinct cells that touch the corner, the
\* cell for direction d lies on the right of the unit edge leaving the corner
\* in direction d, and modify(corner, left(d)) is the cell on its left.
C28_CornerToCell ==
    [][ StepTaken =>
          LET c == cur'
          IN  /\ modify(c, <<1, 0>>)  = AsWords(<<c[1], c[2]>>)
              /\ modify(c, <<0, 1>>)  = AsWords(<<c[1] - 1, c[2]>>)
              /\ modify(c, <<-1, 0>>) = AsWords(<<c[1] - 1, c[2] - 1>>)
              /\ modify(c, <<0, -1>>) = AsWords(<<c[1], c[2] - 1>>)
              /\ { modify(c, d) : d \in Dirs } = { AsWords(p) : p \in CellsAt(c) }
              /\ Cardinality({ modify(c, d) : d \in Dirs }) = 4
              /\ \A d \in Dirs :
                    /\ modify(c, d) = AsWords(AheadRight(c, d))
                    /\ modify(c, left(d)) = AsWords(AheadLeft(c, d))
                    /\ AheadRight(c, d) \in Cells => modify(c, d) = AheadRight(c, d)
                    /\ AheadRight(c, d) \notin Cells => modify(c, d) \notin Cells
      ]_vars

\* the walk is at the bottom left corner of the grid, where two of the four
\* cells lie outside the grid on the left and two below it
C28_Witness ==
    /\ pc = "walk"
    /\ cur = <<0, GridH>>
    /\ dir = <<0, -1>>
    /\ modify(cur, <<0, 1>>) # <<cur[1] - 1, cur[2]>>

\* ---- the turn tables

\* f applied four times
Four(f(_), d) == f(f(f(f(d))))

\* C29: right maps E -> S -> W -> N -> E and left maps E -> N -> W -> S -> E;
\* each undoes the other, four turns to one side give the direction back,
\* and at every step the direction the walk hands to the tables, and the one
\* it gets back, is one of the four unit directions.
C29_TurnTables ==
    [][ StepTaken =>
          /\ dir \in { <<1, 0>>, <<0, 1>>, <<-1, 0>>, <<0, -1>> }
          /\ dir' \in { <<1, 0>>, <<0, 1>>, <<-1, 0>>, <<0, -1>> }
          /\ right(<<1, 0>>) = <<0, 1>> /\ right(<<0, 1>>) = <<-1, 0>>
          /\ right(<<-1, 0>>) = <<0, -1>> /\ right(<<0, -1>>) = <<1, 0>>
          /\ left(<<1, 0>>) = <<0, -1>> /\ left(<<0, -1>>) = <<-1, 0>>
          /\ left(<<-1, 0>>) = <<0, 1>> /\ left(<<0, 1>>) = <<1, 0>>
          /\ left(right(dir)) = dir
          /\ right(left(dir)) = dir
          /\ Four(right, dir) = dir
          /\ Four(left, dir) = dir
          /\ right(dir) = RotRight(dir)
          /\ left(dir) = RotLeft(dir)
      ]_vars

\* the walk is heading West after at least one turn to the left
C29_Witness ==
    /\ pc = "walk"
    /\ dir = <<-1, 0>>
    /\ \E i \in 2 .. Len(verts) - 1 : TurnOf(verts, i) = -1

\* ---- cells popped more than once

\* the solid cells of the grid that share an edge with p
SolidNeighbours(p) == { q \in EdgeNeighbours(p) \cap Cells : tiles[q] \notin {"Air", "Wall"} }

\* C30: the work stack of fill may hold a cell several times; when a cell
\* that is already in visited is popped, all its solid neighbours are in
\* visited, nothing is pushed and visited does not change; a cell is popped
\* at most as many times as it has solid neighbours, the start once more.
C30_RepeatedPop ==
    [][ (pc = "fill" /\ to_check # << >>) =>
            LET n == Len(to_check)
                p == to_check[n]
            IN  /\ p \in visited =>
                       /\ SolidNeighbours(p) \subseteq visited
                       /\ to_check' = SubSeq(to_check, 1, n - 1)
                       /\ visited' = visited
                /\ pop_count(pops', p) = pop_count(pops, p) + 1
                /\ pop_count(pops', p) <= Cardinality(SolidNeighbours(p)) + (IF p = fstart THEN 1 ELSE 0)
      ]_vars

\* fill has popped a cell other than its start a second time and the next
\* cell on its stack is in visited as well
C30_Witness ==
    /\ pc = "fill"
    /\ \E c \in Cells : pop_count(pops, c) >= 2 /\ c # fstart
    /\ to_check # << >>
    /\ to_check[Len(to_check)] \in visited

=============================================================================
